---- MODULE Spec2Model ----
(***************************************************************************)
(* Transfer pipeline of MiaoWallet: src/sui_transfer.py (transfer with dry *)
(* run, dry_run_only) and src/MiaoWallet/sui_transfer.py (transfer without *)
(* dry run).  Two operations run side by side against one keychain, one    *)
(* address cache file and one chain.                                       *)
(***************************************************************************)
EXTENDS Integers, Sequences, FiniteSets, TLC

VARIABLES
    keychain,    \* keyring store: alias -> secret string or None
    addr_file,   \* .wallet_addresses.json: alias -> address or None
    chain,       \* on-chain state: coin object id -> version
    pc,          \* position of each operation
    args,        \* arguments of each operation
    fr,          \* local variables of each operation's frame
    calls,       \* remote calls (method, params) each operation issued
    steps,       \* local steps each operation performed, in order
    printed,     \* messages each operation printed
    held,        \* references to seed-bearing objects still reachable
    ret,         \* what the operation handed back to its caller
    before,      \* persistent state when the operation started
    calc,        \* a pure function under evaluation: its input, then its result
    panel        \* the runs of wallet_panel.py and of the MCP tools: their locals

vars == <<keychain, addr_file, chain, pc, args, fr, calls, steps, printed,
          held, ret, before, calc, panel>>

None == [t |-> "None"]

\* The operations, in the order the operator starts them: each one is a
\* run of the script, started when the previous one has returned.
OpOrder == <<"op1", "op2">>

Ops == {OpOrder[i] : i \in DOMAIN OpOrder}

Index(p) == CHOOSE i \in DOMAIN OpOrder : OpOrder[i] = p

\* ------------------------------------------------------------------ values

SeedLen == 32

S1 == [i \in 1..SeedLen |-> 1]
S2 == [i \in 1..SeedLen |-> 2]

\* A stored secret string: whether its bech32 checksum verifies, and the
\* bytes its 5-bit groups convert to.
Secret(payload, good) ==
    [t |-> "str", form |-> "bech32", hrp |-> "suiprivkey",
     checksum_ok |-> good, data8bit |-> payload]

\* A stored secret given as raw hex digits: the bytes the digits spell.
HexSecret(bytes) == [t |-> "str", form |-> "hex", hexbytes |-> bytes]

K1 == Secret(<<0>> \o S1, TRUE)
K2 == Secret(<<0>> \o S2, TRUE)
KBadChecksum == Secret(<<0>> \o S1, FALSE)
KShort == Secret(<<0, 1, 1, 1>>, TRUE)
KHex == HexSecret(S1)

WalletAliases == {"sui1", "sui2", "broken", "short", "hex1", "ghost"}

\* the secrets stored under the wallets' aliases
StoredSecrets ==
    [a \in WalletAliases |->
        CASE a = "sui1" -> K1
          [] a = "sui2" -> K2
          [] a = "broken" -> KBadChecksum
          [] a = "short" -> KShort
          [] a = "hex1" -> KHex
          [] OTHER -> None]

\* nacl: SigningKey(seed).verify_key.encode()
VerifyKey(seed) == [t |-> "pk", of |-> seed]

\* "0x" + blake2b(bytes([scheme]) + pk, digest_size=32).hexdigest()
Blake2bAddress(scheme, pk) == [t |-> "addr", scheme |-> scheme, pk |-> pk]

A1 == Blake2bAddress(0, VerifyKey(S1))
A2 == Blake2bAddress(0, VerifyKey(S2))

Str(text) == [t |-> "str", v |-> text]

Recipients == {Str("0xB0B"), Str("bob.sui"), Str("nobody.sui")}

\* recipient.endswith(".sui")
EndsWithSui(r) == r.v \in {"bob.sui", "nobody.sui"}

\* the name service record of a name: an address, or null
SuiNS(name) == IF name.v = "bob.sui" THEN Str("0xB0B") ELSE None

MIST_PER_SUI == 1000000000
GAS_BUDGET == 5000000

\* the amount as typed on the command line
Amounts == {[t |-> "str", digits |-> 1, places |-> 0]}

Modes == {"transfer", "dry_run_only", "legacy"}

\* The coin objects an address owns on chain (suix_getCoins).
COIN1 == "0xC01"

CoinsOf(ch, address) ==
    IF address = A1
    THEN <<[coinObjectId |-> COIN1, version |-> ch.version[COIN1]]>>
    ELSE <<>>

ChainInit == [version |-> [c \in {COIN1} |-> 0], executed |-> {}]

NoFile == [a \in WalletAliases |-> None]

AddrFileInits == {NoFile, [NoFile EXCEPT !["sui2"] = A2]}

\* Python truthiness of an optional value
Truthy(v) == v # None

\* --------------------------------------------------------- pure functions

Min(a, b) == IF a < b THEN a ELSE b

\* Python slice d[lo:hi] of a byte string (0-based, hi exclusive)
Slice(d, lo, hi) == SubSeq(d, lo + 1, Min(hi, Len(d)))

Raise(exc, msg) == [t |-> "raise", exc |-> exc, msg |-> msg]

\* bech32.bech32_decode yields data (not (None, None)): the string has the
\* bech32 form and its checksum verifies.
Bech32Decodes(str) == str.form = "bech32" /\ str.checksum_ok

GetAddressFromKeyUnverified(privkey_bech32) ==
    IF privkey_bech32.form # "bech32"
    THEN [t |-> "raise", exc |-> "TypeError", msg |-> "convertbits",
          locals |-> {"get_address_from_key.privkey_bech32"}]
    ELSE LET seed == Slice(privkey_bech32.data8bit, 1, 33)
         IN [t |-> "ok", seed |-> seed, scheme |-> 0, pk |-> VerifyKey(seed),
             address |-> Blake2bAddress(0, VerifyKey(seed))]

\* get_address_from_key: (seed, scheme, pk, address), or the exception it
\* raises together with the locals of its frame that hold key bytes.
get_address_from_key(privkey_bech32) ==
    IF ~Bech32Decodes(privkey_bech32)
    THEN [t |-> "raise", exc |-> "TypeError", msg |-> "convertbits",
          locals |-> {"get_address_from_key.privkey_bech32"}]
    ELSE LET data8bit == privkey_bech32.data8bit
         IN IF Len(data8bit) = 0
            THEN [t |-> "raise", exc |-> "IndexError", msg |-> "data8bit[0]",
                  locals |-> {"get_address_from_key.privkey_bech32",
                              "get_address_from_key.data8bit"}]
            ELSE LET scheme == data8bit[1]
                     seed == Slice(data8bit, 1, 33)
                 IN IF Len(seed) # SeedLen
                    THEN [t |-> "raise", exc |-> "ValueError", msg |-> "seed length",
                          locals |-> {"get_address_from_key.privkey_bech32",
                                      "get_address_from_key.data8bit",
                                      "get_address_from_key.seed"}]
                    ELSE [t |-> "ok", seed |-> seed, scheme |-> scheme,
                          pk |-> VerifyKey(seed),
                          address |-> Blake2bAddress(scheme, VerifyKey(seed))]

\* secret.startswith("suiprivkey1")
StartsWithSuiPrivKey(secret) == secret.form = "bech32" /\ secret.hrp = "suiprivkey"

DeriveFailed == Str("(derive failed)")

\* wallet_panel.derive_sui_address: the address, or the "(derive failed"
\* text its except clause returns
derive_sui_address(secret) ==
    IF StartsWithSuiPrivKey(secret)
    THEN IF ~Bech32Decodes(secret) \/ Len(secret.data8bit) = 0
         THEN DeriveFailed
         ELSE LET scheme == secret.data8bit[1]
                  seed == Slice(secret.data8bit, 1, 33)
              IN IF Len(seed) # SeedLen THEN DeriveFailed
                 ELSE Blake2bAddress(scheme, VerifyKey(seed))
    ELSE IF secret.form # "hex"
    THEN DeriveFailed
    ELSE LET seed == Slice(secret.hexbytes, 0, 32)
             scheme == 0
         IN IF Len(seed) # SeedLen THEN DeriveFailed
            ELSE Blake2bAddress(scheme, VerifyKey(seed))

\* ------------------------------------------------------------ the registry

REGISTRY_KEY == "__wallet_registry__"

\* the account names of the service's keychain items
KeychainAccounts == WalletAliases \cup {REGISTRY_KEY}

\* json.dumps of a list, and json.loads of a string
JsonDumps(value) == [t |-> "str", form |-> "json", v |-> value]

IsJson(str) == str.form = "json"

\* a registry record as cmd_add builds it
Wallet(alias, chain_id, address) ==
    [alias |-> alias, chain |-> chain_id, address |-> address]

\* derive_address: by chain; "" for a chain without derivation
derive_address(chain_id, secret) ==
    IF chain_id = "sui" THEN derive_sui_address(secret) ELSE Str("")

\* The wallets in the order they were added, all as Sui wallets.
RegisteredAliases == <<"sui1", "sui2", "broken", "short", "hex1">>

\* The keychain the scripts start with: the secrets, and the registry that
\* cmd_add wrote when they were added.
KeychainInit ==
    [a \in KeychainAccounts |->
        IF a = REGISTRY_KEY
        THEN JsonDumps([i \in DOMAIN RegisteredAliases |->
                          Wallet(RegisteredAliases[i], "sui",
                                 derive_address("sui", StoredSecrets[RegisteredAliases[i]]))])
        ELSE StoredSecrets[a]]

\* print_dry_run: the status read from the result, "unknown" when absent
DryRunStatus(result) ==
    IF "effects" \in DOMAIN result /\ "status" \in DOMAIN result.effects
    THEN result.effects.status
    ELSE "unknown"

PrintDryRunAlwaysTrue(result) == TRUE

PrintDryRunUnknownOk(result) == DryRunStatus(result) # "failure"

\* print_dry_run: its return value
print_dry_run(result) == DryRunStatus(result) = "success"

\* str.lower() on one character
LowerChar(c) ==
    CASE c = "Y" -> "y"
      [] c = "E" -> "e"
      [] c = "S" -> "s"
      [] c = "N" -> "n"
      [] c = "O" -> "o"
      [] OTHER -> c

Lower(str) == [i \in 1..Len(str) |-> LowerChar(str[i])]

RECURSIVE LStrip(_)
LStrip(str) == IF str # <<>> /\ Head(str) = " " THEN LStrip(Tail(str)) ELSE str

RECURSIVE RStrip(_)
RStrip(str) ==
    IF str # <<>> /\ str[Len(str)] = " "
    THEN RStrip(SubSeq(str, 1, Len(str) - 1))
    ELSE str

\* str.strip()
Strip(str) == RStrip(LStrip(str))

\* what the operator may type at the prompt
Answers ==
    { <<>>, <<"y">>, <<"Y", " ">>, <<"n">>, <<"y", "e">>, <<"y", "e", "s">>,
      <<" ", "Y", "E", "S", " ">> }

AffirmativeOrEmpty(ans) == ans \in {<<"y">>, <<"y", "e", "s">>, <<>>}

\* ans in ("y", "yes")
Affirmative(ans) == ans \in {<<"y">>, <<"y", "e", "s">>}

Bool(b) == [t |-> "bool", v |-> b]

List(l) == [t |-> "list", v |-> l]

Bytes(b) == [t |-> "bytes", v |-> b]

Num(n) == [t |-> "int", v |-> n]

\* ------------------------------------------------ binary64 and raw bytes

\* A Python float: the significand as MANT_DIG binary digits, first digit
\* 1, and the exponent of its last digit; no digits for 0.0.
MANT_DIG == 53

Float(m, e) == [t |-> "float", m |-> m, e |-> e]

Reverse(seq) == [i \in 1..Len(seq) |-> seq[Len(seq) + 1 - i]]

RECURSIVE Pow10(_)
Pow10(k) == IF k = 0 THEN 1 ELSE 10 * Pow10(k - 1)

\* binary digits of a natural number, most significant first
RECURSIVE IntBits(_)
IntBits(q) == IF q = 0 THEN <<>> ELSE Append(IntBits(q \div 2), q % 2)

RECURSIVE BitsValue(_)
BitsValue(b) ==
    IF b = <<>> THEN 0 ELSE 2 * BitsValue(SubSeq(b, 1, Len(b) - 1)) + b[Len(b)]

RECURSIVE Inc(_)
Inc(b) ==
    IF b = <<>> THEN <<1>>
    ELSE IF b[Len(b)] = 0 THEN [b EXCEPT ![Len(b)] = 1]
    ELSE Append(Inc(SubSeq(b, 1, Len(b) - 1)), 0)

\* round-half-even of a significand that has MANT_DIG digits: `guard` is
\* the first dropped digit, `sticky` says whether a later one is set
RoundHalfEven(m, e, guard, sticky) ==
    IF guard = 1 /\ (sticky \/ m[Len(m)] = 1)
    THEN LET up == Inc(m)
         IN IF Len(up) > Len(m) THEN Float(SubSeq(up, 1, Len(m)), e + 1)
            ELSE Float(up, e)
    ELSE Float(m, e)

\* The digits of (value of m) + r / d, continued until MANT_DIG of them
\* are known, then rounded on the remainder.
RECURSIVE Expand(_, _, _, _)
Expand(m, e, r, d) ==
    IF Len(m) = MANT_DIG
    THEN RoundHalfEven(m, e, IF 2 * r >= d THEN 1 ELSE 0, 2 * r # d)
    ELSE LET b == (2 * r) \div d
         IN Expand(IF m = <<>> /\ b = 0 THEN <<>> ELSE Append(m, b),
                   e - 1, (2 * r) % d, d)

\* A decimal numeral on the command line: `digits` with the point `places`
\* digits from the right.
Decimal(digits, places) == [t |-> "str", digits |-> digits, places |-> places]

\* float(text): the binary64 value nearest to the numeral
ParseFloat(text) ==
    LET d == Pow10(text.places)
    IN IF text.digits = 0 THEN Float(<<>>, 0)
       ELSE Expand(IntBits(text.digits \div d), 0, text.digits % d, d)

\* the digits of (value of lsb) * c + carry, least significant first
RECURSIVE MulLsb(_, _, _)
MulLsb(lsb, c, carry) ==
    IF lsb = <<>> THEN Reverse(IntBits(carry))
    ELSE LET prod == Head(lsb) * c + carry
         IN <<prod % 2>> \o MulLsb(Tail(lsb), c, prod \div 2)

\* x * c for a float x and an int c that a float holds exactly
FloatTimesInt(x, c) ==
    IF x.m = <<>> THEN x
    ELSE LET exact == Reverse(MulLsb(Reverse(x.m), c, 0))
             n == Len(exact)
         IN IF n <= MANT_DIG
            THEN Float(exact \o [i \in 1..(MANT_DIG - n) |-> 0], x.e - (MANT_DIG - n))
            ELSE RoundHalfEven(SubSeq(exact, 1, MANT_DIG), x.e + (n - MANT_DIG),
                               exact[MANT_DIG + 1],
                               \E i \in (MANT_DIG + 2)..n : exact[i] = 1)

\* int(x) for x >= 0: the digits before the binary point
IntOfFloat(x) ==
    IF x.m = <<>> \/ Len(x.m) + x.e <= 0 THEN 0
    ELSE IF x.e >= 0 THEN BitsValue(x.m \o [i \in 1..x.e |-> 0])
    ELSE BitsValue(SubSeq(x.m, 1, Len(x.m) + x.e))

\* amount_mist = int(amount_sui * 1_000_000_000)
AmountMist(amount_sui) == IntOfFloat(FloatTimesInt(amount_sui, MIST_PER_SUI))

\* ----------------------------------------------------------- control flow

PipelineAutoSkipsDryRun(a) ==
    IF a.auto_confirm
    THEN <<"resolve", "keychain", "decode", "save_read", "save_write",
           "get_coins", "build", "gate", "sign", "execute", "finally">>
    ELSE <<"resolve", "keychain", "decode", "save_read", "save_write",
           "get_coins", "build", "dry_run", "gate", "sign", "execute", "finally">>

PipelineSignsBeforeGate(a) ==
    CASE a.mode = "transfer" ->
           <<"resolve", "keychain", "decode", "save_read", "save_write",
             "get_coins", "build", "dry_run", "sign", "gate", "execute", "finally">>
      [] a.mode = "legacy" ->
           <<"keychain", "decode", "get_coins", "build", "sign", "execute", "finally">>
      [] OTHER ->
           <<"resolve", "get_wallet_address", "get_coins", "build", "dry_run">>

PipelinePreviewReadsKey(a) ==
    CASE a.mode = "transfer" ->
           <<"resolve", "keychain", "decode", "save_read", "save_write",
             "get_coins", "build", "dry_run", "gate", "sign", "execute", "finally">>
      [] a.mode = "legacy" ->
           <<"keychain", "decode", "get_coins", "build", "sign", "execute", "finally">>
      [] OTHER ->
           <<"resolve", "keychain", "decode", "get_wallet_address", "get_coins",
             "build", "dry_run">>

\* The order of the steps in the body of the operation.
Pipeline(a) ==
    CASE a.mode = "transfer" ->
           <<"resolve", "keychain", "decode", "save_read", "save_write",
             "get_coins", "build", "dry_run", "gate", "sign", "execute", "finally">>
      [] a.mode = "legacy" ->
           <<"keychain", "decode", "get_coins", "build", "sign", "execute", "finally">>
      [] OTHER ->
           <<"resolve", "get_wallet_address", "get_coins", "build", "dry_run">>

AfterExecuteLeavesTry(a, stage) ==
    LET pl == Pipeline(a)
        i == CHOOSE k \in 1..Len(pl) : pl[k] = stage
    IN IF i = Len(pl) \/ stage = "execute" THEN "done" ELSE pl[i + 1]

\* The step after `stage`, "done" after the last one.
After(a, stage) ==
    LET pl == Pipeline(a)
        i == CHOOSE k \in 1..Len(pl) : pl[k] = stage
    IN IF i = Len(pl) THEN "done" ELSE pl[i + 1]

TryExitSkipsFinally(a) == "done"

\* Where a return or an exception inside the try statement continues.
TryExit(a) == IF a.mode = "dry_run_only" THEN "done" ELSE "finally"

OnRpcFailureRetry(a, stage) == stage

\* Where the operation continues when rpc_call raised in `stage`: the
\* exception propagates, nothing catches it to call again.
OnRpcFailure(a, stage) == TryExit(a)

SystemExit == [t |-> "raise", exc |-> "SystemExit", msg |-> "1"]

\* How transfer()/dry_run_only() leave on a failed precondition:
\* `return None` in transfer, sys.exit(1) in dry_run_only.
Bail(a) == IF a.mode = "dry_run_only" THEN SystemExit ELSE None

\* rpc_call: a response, an "error" member in the response, or no usable
\* response at all (requests raises).
RpcOutcomes == {"ok", "rpc_error", "transport"}

RpcRaise(o) ==
    IF o = "rpc_error" THEN Raise("Exception", "RPC error")
    ELSE Raise("RequestException", "transport")

CalcIdle == [fn |-> "idle"]

\* The runs of the panel and of the MCP server's tools.
PanelProcs == {"panel1", "panel2"}

\* No command running: the locals of cmd_add / cmd_remove / cmd_reset_acl /
\* list_wallets are unbound, nothing has been printed.
PanelIdle ==
    [pc |-> "idle", cmd |-> "none", runs |-> 0, alias |-> "", wallets |-> <<>>,
     existing |-> 0, chain_id |-> "", secret |-> None, address |-> None,
     pk |-> None, out |-> <<>>, stored_before |-> None, result |-> None]

Frame0 ==
    [privkey |-> None, seed |-> None, scheme |-> None, pk |-> None,
     sender |-> None, recipient |-> None, amount_mist |-> None, addrs |-> None,
     coins |-> None, coin |-> None, tx_result |-> None, tx_bytes |-> None, dry_result |-> None, ok |-> None,
     typed |-> None, ans |-> None, sig |-> None, result |-> None]

Init ==
    /\ keychain = KeychainInit
    /\ addr_file \in AddrFileInits
    /\ chain = ChainInit
    /\ pc = [p \in Ops |-> "idle"]
    /\ args = [p \in Ops |-> None]
    /\ fr = [p \in Ops |-> Frame0]
    /\ calls = [p \in Ops |-> <<>>]
    /\ steps = [p \in Ops |-> <<>>]
    /\ printed = [p \in Ops |-> <<>>]
    /\ held = [p \in Ops |-> {}]
    /\ ret = [p \in Ops |-> None]
    /\ before = [p \in Ops |-> None]
    /\ calc = CalcIdle
    /\ panel = [q \in PanelProcs |-> PanelIdle]

Goto(p, s) == pc' = [pc EXCEPT ![p] = s]
Say(p, msgs) == printed' = [printed EXCEPT ![p] = @ \o msgs]
Did(p, s) == steps' = [steps EXCEPT ![p] = @ \o s]
Call(p, m, params) ==
    calls' = [calls EXCEPT ![p] = Append(@, [method |-> m, params |-> params])]
Return(p, v) == ret' = [ret EXCEPT ![p] = v]

Persistent == [addr_file |-> addr_file, keychain |-> keychain, chain |-> chain]

\* float(args[2]) of each amount an operation can be started with
AmountArgument == [amt \in Amounts |-> ParseFloat(amt)]

\* int(amount_sui * 1_000_000_000) of each of them
AmountMistOf == [amt \in Amounts |-> AmountMist(AmountArgument[amt])]

\* Entry of transfer() / dry_run_only(): the arguments are bound and
\* amount_mist = int(amount_sui * 1_000_000_000) is computed.
Start(p) ==
    /\ pc[p] = "idle"
    /\ \A q \in Ops : Index(q) < Index(p) => pc[q] = "done"
    /\ \E amt \in Amounts :
         LET amount_sui == AmountArgument[amt]
             amount_mist == Num(AmountMistOf[amt])
         IN \E m \in Modes, w \in WalletAliases, r \in Recipients :
              \E auto \in (IF m = "transfer" THEN BOOLEAN ELSE {FALSE}) :
                LET a == [t |-> "args", mode |-> m, wallet_alias |-> w,
                          recipient |-> r, amount_sui |-> amount_sui,
                          auto_confirm |-> auto]
                IN /\ args' = [args EXCEPT ![p] = a]
                   /\ fr' = [fr EXCEPT ![p].recipient = r,
                                       ![p].amount_mist = amount_mist]
                   /\ Goto(p, Head(Pipeline(a)))
    /\ before' = [before EXCEPT ![p] = Persistent]
    /\ UNCHANGED <<panel, calc, keychain, addr_file, chain, calls, steps, printed, held, ret>>

\* resolve_suins and the `if recipient.endswith(".sui")` block
ResolveRecipient(p) ==
    /\ pc[p] = "resolve"
    /\ IF ~EndsWithSui(fr[p].recipient)
       THEN /\ Goto(p, After(args[p], "resolve"))
            /\ UNCHANGED <<fr, calls, steps, printed, ret>>
       ELSE \E o \in RpcOutcomes :
              LET resolved == IF o = "ok" THEN SuiNS(fr[p].recipient) ELSE None
              IN /\ Call(p, "suix_resolveNameServiceAddress", <<fr[p].recipient>>)
                 /\ Did(p, <<"resolve_suins">>)
                 /\ IF ~Truthy(resolved)
                    THEN /\ Say(p, <<"resolving", "resolve_failed">>)
                         /\ Return(p, Bail(args[p]))
                         /\ Goto(p, "done")
                         /\ UNCHANGED fr
                    ELSE /\ Say(p, <<"resolving", "resolved">>)
                         /\ fr' = [fr EXCEPT ![p].recipient = resolved]
                         /\ Goto(p, After(args[p], "resolve"))
                         /\ UNCHANGED ret
    /\ UNCHANGED <<panel, calc, keychain, addr_file, chain, args, held, before>>

\* privkey = keyring.get_password(SERVICE_ID, wallet_alias); if not privkey
KeychainGet(p) ==
    /\ pc[p] = "keychain"
    /\ \E granted \in BOOLEAN :
         LET privkey == IF granted THEN keychain[args[p].wallet_alias] ELSE None
         IN /\ Did(p, <<"keyring.get_password">>)
            /\ IF ~Truthy(privkey)
               THEN /\ Say(p, <<"request", "no_privkey">>)
                    /\ Return(p, None)
                    /\ Goto(p, "done")
                    /\ UNCHANGED <<fr, held>>
               ELSE /\ Say(p, <<"request">>)
                    /\ fr' = [fr EXCEPT ![p].privkey = privkey]
                    /\ held' = [held EXCEPT ![p] = @ \cup {"transfer.privkey"}]
                    /\ Goto(p, After(args[p], "keychain"))
                    /\ UNCHANGED ret
    /\ UNCHANGED <<panel, calc, keychain, addr_file, chain, args, calls, before>>

\* seed, scheme, pk, sender = get_address_from_key(privkey)
DecodeKey(p) ==
    /\ pc[p] = "decode"
    /\ LET r == get_address_from_key(fr[p].privkey)
       IN /\ Did(p, <<"get_address_from_key">>)
          /\ IF r.t = "ok"
             THEN /\ fr' = [fr EXCEPT ![p].seed = Bytes(r.seed),
                                      ![p].scheme = Num(r.scheme),
                                      ![p].pk = r.pk,
                                      ![p].sender = r.address]
                  /\ held' = [held EXCEPT ![p] = @ \cup {"transfer.seed"}]
                  /\ Say(p, <<"sender">>)
                  /\ Goto(p, After(args[p], "decode"))
                  /\ UNCHANGED ret
             ELSE /\ Return(p, Raise(r.exc, r.msg))
                  /\ held' = [held EXCEPT ![p] = @ \cup r.locals]
                  /\ Goto(p, TryExit(args[p]))
                  /\ UNCHANGED <<fr, printed>>
    /\ UNCHANGED <<panel, calc, keychain, addr_file, chain, args, calls, before>>

\* `wallet_panel.py list --json` as a subprocess: the panel's argument
\* parser knows no --json option and exits with status 2.
PanelListJson == [returncode |-> 2, stdout |-> <<>>]

\* get_wallet_address: the registry listing first, then the address file
get_wallet_address(wallet_alias, file) ==
    LET result == PanelListJson
        listed == IF result.returncode = 0
                  THEN {w \in {result.stdout[i] : i \in DOMAIN result.stdout} :
                            w.alias = wallet_alias}
                  ELSE {}
    IN IF listed # {} THEN (CHOOSE w \in listed : TRUE).address
       ELSE file[wallet_alias]

\* sender = get_wallet_address(wallet_alias); if not sender: sys.exit(1)
GetWalletAddress(p) ==
    /\ pc[p] = "get_wallet_address"
    /\ LET sender == get_wallet_address(args[p].wallet_alias, addr_file)
       IN /\ Did(p, <<"get_wallet_address">>)
          /\ IF ~Truthy(sender)
             THEN /\ Say(p, <<"address_not_found">>)
                  /\ Return(p, SystemExit)
                  /\ Goto(p, "done")
                  /\ UNCHANGED fr
             ELSE /\ Say(p, <<"preview_request">>)
                  /\ fr' = [fr EXCEPT ![p].sender = sender]
                  /\ Goto(p, After(args[p], "get_wallet_address"))
                  /\ UNCHANGED ret
    /\ UNCHANGED <<panel, calc, keychain, addr_file, chain, args, calls, held, before>>

\* save_wallet_address, first half: addrs = json.loads(f.read())
SaveRead(p) ==
    /\ pc[p] = "save_read"
    /\ fr' = [fr EXCEPT ![p].addrs = addr_file]
    /\ Goto(p, After(args[p], "save_read"))
    /\ UNCHANGED <<panel, calc, keychain, addr_file, chain, args, calls, steps, printed,
                   held, ret, before>>

SaveReplace(addrs, wallet_alias, address) ==
    [a \in WalletAliases |-> IF a = wallet_alias THEN address ELSE None]

\* addrs[wallet_alias] = address
SaveMerge(addrs, wallet_alias, address) ==
    [addrs EXCEPT ![wallet_alias] = address]

\* save_wallet_address, second half: the file is rewritten
SaveWrite(p) ==
    /\ pc[p] = "save_write"
    /\ addr_file' = SaveMerge(fr[p].addrs, args[p].wallet_alias, fr[p].sender)
    /\ Did(p, <<"save_wallet_address">>)
    /\ Goto(p, After(args[p], "save_write"))
    /\ UNCHANGED <<panel, calc, keychain, chain, args, fr, calls, printed, held, ret, before>>

NoCoinsNeverTrue(data) == Len(data) < 0

\* if not coins["data"]
NoCoins(data) == Len(data) = 0

\* coins = get_coins(sender) and the choice of the first coin
GetCoins(p) ==
    /\ pc[p] = "get_coins"
    /\ Call(p, "suix_getCoins", <<fr[p].sender>>)
    /\ Did(p, <<"get_coins">>)
    /\ \E o \in RpcOutcomes :
         IF o # "ok"
         THEN /\ Return(p, RpcRaise(o))
              /\ Goto(p, OnRpcFailure(args[p], "get_coins"))
              /\ UNCHANGED <<fr, printed>>
         ELSE LET data == CoinsOf(chain, fr[p].sender)
              IN IF NoCoins(data)
                 THEN /\ Say(p, <<"no_coin">>)
                      /\ Return(p, Bail(args[p]))
                      /\ Goto(p, TryExit(args[p]))
                      /\ fr' = [fr EXCEPT ![p].coins = List(data)]
                 ELSE IF Len(data) = 0
                 THEN /\ Return(p, Raise("IndexError", "data[0]"))
                      /\ Goto(p, TryExit(args[p]))
                      /\ fr' = [fr EXCEPT ![p].coins = List(data)]
                      /\ UNCHANGED printed
                 ELSE /\ fr' = [fr EXCEPT ![p].coins = List(data),
                                          ![p].coin = [t |-> "coin"] @@ data[1]]
                      /\ Say(p, <<"balance">>)
                      /\ Goto(p, After(args[p], "get_coins"))
                      /\ UNCHANGED ret
    /\ UNCHANGED <<panel, calc, keychain, addr_file, chain, args, held, before>>

\* unsafe_paySui on the node: the transaction bytes name the coin object
\* at the version the node sees.
UnsignedTx(ch, sender, coin_id, recipient, amount, gas_budget) ==
    [t |-> "tx", sender |-> sender, coin |-> coin_id,
     version |-> ch.version[coin_id], recipient |-> recipient,
     amount |-> amount, gas_budget |-> gas_budget]

\* tx_result = build_transfer_tx(...); tx_bytes = tx_result["txBytes"]
BuildTransferTx(p) ==
    /\ pc[p] = "build"
    /\ Call(p, "unsafe_paySui",
            <<fr[p].sender, fr[p].coin.coinObjectId, fr[p].recipient,
              fr[p].amount_mist.v, GAS_BUDGET>>)
    /\ Did(p, <<"build_transfer_tx">>)
    /\ Say(p, <<"building">>)
    /\ \E o \in RpcOutcomes :
         IF o # "ok"
         THEN /\ Return(p, RpcRaise(o))
              /\ Goto(p, OnRpcFailure(args[p], "build"))
              /\ UNCHANGED fr
         ELSE LET tx_result ==
                      [t |-> "dict",
                       txBytes |-> UnsignedTx(chain, fr[p].sender,
                                              fr[p].coin.coinObjectId, fr[p].recipient,
                                              fr[p].amount_mist.v, GAS_BUDGET)]
              IN fr' = [fr EXCEPT ![p].tx_result = tx_result,
                                  ![p].tx_bytes = tx_result.txBytes]
              /\ Goto(p, After(args[p], "build"))
              /\ UNCHANGED ret
    /\ UNCHANGED <<panel, calc, keychain, addr_file, chain, args, held, before>>

\* What sui_dryRunTransactionBlock may answer for a transaction.
DryRunResults(ch, tx) ==
    LET fail == [t |-> "dict", effects |-> [status |-> "failure"]]
        bare == [t |-> "dict"]
        good == [t |-> "dict", effects |-> [status |-> "success"]]
    IN IF ch.version[tx.coin] = tx.version THEN {good, fail, bare} ELSE {fail, bare}

\* dry_result = dry_run(tx_bytes); ok = print_dry_run(...); if not ok
DryRun(p) ==
    /\ pc[p] = "dry_run"
    /\ Call(p, "sui_dryRunTransactionBlock", <<fr[p].tx_bytes>>)
    /\ Did(p, <<"dry_run">>)
    /\ \E o \in RpcOutcomes :
         IF o # "ok"
         THEN /\ Return(p, RpcRaise(o))
              /\ Say(p, <<"dry_running">>)
              /\ Goto(p, OnRpcFailure(args[p], "dry_run"))
              /\ UNCHANGED fr
         ELSE \E dry_result \in DryRunResults(chain, fr[p].tx_bytes) :
                LET ok == print_dry_run(dry_result)
                IN /\ fr' = [fr EXCEPT ![p].dry_result = dry_result,
                                       ![p].ok = Bool(ok)]
                   /\ IF args[p].mode = "dry_run_only"
                      THEN /\ Say(p, <<"dry_running",
                                       IF ok THEN "sim_ok" ELSE "sim_failed", "hint">>)
                           /\ Goto(p, After(args[p], "dry_run"))
                           /\ UNCHANGED ret
                      ELSE IF ~ok
                      THEN /\ Say(p, <<"dry_running", "sim_failed", "sim_cancelled">>)
                           /\ Return(p, None)
                           /\ Goto(p, TryExit(args[p]))
                      ELSE /\ Say(p, <<"dry_running", "sim_ok">>)
                           /\ Goto(p, After(args[p], "dry_run"))
                           /\ UNCHANGED ret
    /\ UNCHANGED <<panel, calc, keychain, addr_file, chain, args, held, before>>

\* the confirmation: input() unless auto_confirm
Confirm(p) ==
    /\ pc[p] = "gate"
    /\ IF args[p].auto_confirm
       THEN /\ Say(p, <<"auto_confirm">>)
            /\ Goto(p, After(args[p], "gate"))
            /\ UNCHANGED <<fr, steps, ret>>
       ELSE \/ \E raw \in Answers :
                 LET ans == Lower(Strip(raw))
                 IN /\ Did(p, <<"input">>)
                    /\ fr' = [fr EXCEPT ![p].typed = Str(raw), ![p].ans = Str(ans)]
                    /\ IF ~Affirmative(ans)
                       THEN /\ Say(p, <<"user_cancelled">>)
                            /\ Return(p, None)
                            /\ Goto(p, TryExit(args[p]))
                       ELSE /\ Goto(p, After(args[p], "gate"))
                            /\ UNCHANGED <<printed, ret>>
            \/ /\ Did(p, <<"input">>)
               /\ Return(p, Raise("EOFError", "input"))
               /\ Goto(p, TryExit(args[p]))
               /\ UNCHANGED <<fr, printed>>
    /\ UNCHANGED <<panel, calc, keychain, addr_file, chain, args, calls, held, before>>

INTENT_PREFIX == <<0, 0, 0>>

\* blake2b(data, digest_size=32).digest()
Blake2b(data) == [t |-> "digest", of |-> data]

\* sign_and_execute up to the rpc call: bytes([scheme]) + signature + pk
SignatureEnvelope(tx_bytes, seed, scheme) ==
    LET intent_msg == <<INTENT_PREFIX, tx_bytes>>
        digest == Blake2b(intent_msg)
        signature == [t |-> "signature", by |-> seed, over |-> digest]
    IN [t |-> "envelope", scheme |-> scheme, signature |-> signature,
        pk |-> VerifyKey(seed)]

SignAndExecuteLocals == {"sign_and_execute.seed", "sign_and_execute.sk"}

\* sign_and_execute, lines up to sig_b64: the key object is created and
\* the digest signed
Sign(p) ==
    /\ pc[p] = "sign"
    /\ Did(p, <<"sign">>)
    /\ Say(p, <<"signing">>)
    /\ fr' = [fr EXCEPT ![p].sig =
                 SignatureEnvelope(fr[p].tx_bytes, fr[p].seed.v, fr[p].scheme.v)]
    /\ held' = [held EXCEPT ![p] = @ \cup SignAndExecuteLocals]
    /\ Goto(p, After(args[p], "sign"))
    /\ UNCHANGED <<panel, calc, keychain, addr_file, chain, args, calls, ret, before>>

\* The chain after it executed a transaction: the coin object moves on.
Applied(ch, tx, status) ==
    [version |-> [ch.version EXCEPT ![tx.coin] = @ + 1],
     executed |-> ch.executed \cup {[tx |-> tx, status |-> status]}]

\* How sui_executeTransactionBlock can go: the request never arrives, the
\* node rejects it, it is executed and answered, or it is executed and the
\* answer is lost (timeout).
ExecOutcomes(ch, tx) ==
    IF ch.version[tx.coin] = tx.version
    THEN {"lost_request", "rpc_error", "ok", "lost_response"}
    ELSE {"lost_request", "rpc_error"}

ExecuteParamsRebuilt(tx_bytes_b64, sig_b64) ==
    <<[tx_bytes_b64 EXCEPT !.gas_budget = @ + 1], sig_b64>>

\* the transaction and signature parameters of sui_executeTransactionBlock
ExecuteParams(tx_bytes_b64, sig_b64) == <<tx_bytes_b64, sig_b64>>

TxStatus(result) ==
    IF "effects" \in DOMAIN result /\ "status" \in DOMAIN result.effects
    THEN result.effects.status
    ELSE "unknown"

\* sign_and_execute's rpc call, then the report and `return result`
Execute(p) ==
    /\ pc[p] = "execute"
    /\ Call(p, "sui_executeTransactionBlock", ExecuteParams(fr[p].tx_bytes, fr[p].sig))
    /\ Did(p, <<"execute">>)
    /\ \E o \in ExecOutcomes(chain, fr[p].tx_bytes) :
         CASE o = "ok" ->
                \E st \in {"success", "failure"} :
                  LET result == [t |-> "dict", digest |-> Blake2b(fr[p].tx_bytes),
                                 effects |-> [status |-> st]]
                  IN /\ chain' = Applied(chain, fr[p].tx_bytes, st)
                     /\ fr' = [fr EXCEPT ![p].result = result]
                     /\ held' = [held EXCEPT ![p] = @ \ SignAndExecuteLocals]
                     /\ Say(p, <<IF TxStatus(result) = "success"
                                 THEN "final_ok" ELSE "final_failed">>)
                     /\ Return(p, result)
                     /\ Goto(p, After(args[p], "execute"))
           [] o = "lost_response" ->
                \E st \in {"success", "failure"} :
                  /\ chain' = Applied(chain, fr[p].tx_bytes, st)
                  /\ Return(p, RpcRaise("transport"))
                  /\ Goto(p, OnRpcFailure(args[p], "execute"))
                  /\ UNCHANGED <<fr, held, printed>>
           [] o = "lost_request" ->
                /\ Return(p, RpcRaise("transport"))
                /\ Goto(p, OnRpcFailure(args[p], "execute"))
                /\ UNCHANGED <<chain, fr, held, printed>>
           [] OTHER ->
                /\ Return(p, RpcRaise("rpc_error"))
                /\ Goto(p, OnRpcFailure(args[p], "execute"))
                /\ UNCHANGED <<chain, fr, held, printed>>
    /\ UNCHANGED <<panel, calc, keychain, addr_file, args, before>>

TransferLocals == {"transfer.privkey", "transfer.seed"}

\* finally: privkey = None; seed = None; del privkey, seed
Finally(p) ==
    /\ pc[p] = "finally"
    /\ fr' = [fr EXCEPT ![p].privkey = None, ![p].seed = None]
    /\ held' = [held EXCEPT ![p] = @ \ TransferLocals]
    /\ Did(p, <<"cleanup">>)
    /\ Say(p, <<"cleared">>)
    /\ Goto(p, "done")
    /\ UNCHANGED <<panel, calc, keychain, addr_file, chain, args, calls, ret, before>>

Next ==
    \E p \in Ops :
        \/ Start(p)
        \/ ResolveRecipient(p)
        \/ KeychainGet(p)
        \/ DecodeKey(p)
        \/ GetWalletAddress(p)
        \/ SaveRead(p)
        \/ SaveWrite(p)
        \/ GetCoins(p)
        \/ BuildTransferTx(p)
        \/ DryRun(p)
        \/ Confirm(p)
        \/ Sign(p)
        \/ Execute(p)
        \/ Finally(p)

Spec == Init /\ [][Next]_vars

TypeOK == \A p \in Ops : pc[p] \in {"idle", "resolve", "keychain", "decode",
            "get_wallet_address", "save_read", "save_write", "get_coins", "build",
            "dry_run", "gate", "sign", "execute", "finally", "done"}

\* ------------------------------------------------------ the bytes signed

DIGEST_SIZE == 32
SIGNATURE_LEN == 64
PUBLIC_KEY_LEN == 32

RECURSIVE SumBytes(_)
SumBytes(b) == IF b = <<>> THEN 0 ELSE Head(b) + SumBytes(Tail(b))

\* Stand-ins for the library primitives: byte strings of the primitives'
\* output lengths that depend on every input.
\* hashlib.blake2b(digest_size=...).digest()
Blake2bDigest(data, digest_size) ==
    [i \in 1..digest_size |-> (SumBytes(data) + 31 * Len(data) + i) % 256]

\* SigningKey(seed).sign(message).signature
Ed25519Signature(seed, message) ==
    [i \in 1..SIGNATURE_LEN |->
        (seed[((i - 1) % Len(seed)) + 1] + message[((i - 1) % Len(message)) + 1] + i) % 256]

\* SigningKey(seed).verify_key.encode()
VerifyKeyBytes(seed) ==
    [i \in 1..PUBLIC_KEY_LEN |-> (3 * seed[((i - 1) % Len(seed)) + 1] + i) % 256]

SigBytesWithoutIntent(tx_bytes, seed, scheme) ==
    LET digest == Blake2bDigest(tx_bytes, DIGEST_SIZE)
        signature == Ed25519Signature(seed, digest)
        pk == VerifyKeyBytes(seed)
    IN [t |-> "signed", intent_msg |-> tx_bytes, digest |-> digest,
        sig_bytes |-> <<scheme>> \o signature \o pk]

\* sign_and_execute on raw bytes, up to sig_bytes
SigBytes(tx_bytes, seed, scheme) ==
    LET intent_prefix == INTENT_PREFIX
        intent_msg == intent_prefix \o tx_bytes
        digest == Blake2bDigest(intent_msg, DIGEST_SIZE)
        signature == Ed25519Signature(seed, digest)
        pk == VerifyKeyBytes(seed)
    IN [t |-> "signed", intent_msg |-> intent_msg, digest |-> digest,
        sig_bytes |-> <<scheme>> \o signature \o pk]

\* An operation that can take its next step takes it: the script runs to
\* its end, and a remote call returns or fails.
Fairness == \A p \in Ops : WF_vars(Sign(p)) /\ WF_vars(Execute(p)) /\ WF_vars(Finally(p))

\* Runs of transfer() on the funded wallet, one after the other.
LiveArgs ==
    {[t |-> "args", mode |-> "transfer", wallet_alias |-> "sui1", recipient |-> r,
      amount_sui |-> AmountArgument[amt], auto_confirm |-> auto] :
        r \in Recipients, amt \in Amounts, auto \in BOOLEAN}

LiveAmountMistOf == [a \in LiveArgs |-> AmountMist(a.amount_sui)]

StartLive(p) ==
    /\ pc[p] = "idle"
    /\ \A q \in Ops : Index(q) < Index(p) => pc[q] = "done"
    /\ \E a \in LiveArgs :
         /\ args' = [args EXCEPT ![p] = a]
         /\ fr' = [fr EXCEPT ![p].recipient = a.recipient,
                             ![p].amount_mist = Num(LiveAmountMistOf[a])]
         /\ Goto(p, Head(Pipeline(a)))
    /\ before' = [before EXCEPT ![p] = Persistent]
    /\ UNCHANGED <<panel, calc, keychain, addr_file, chain, calls, steps, printed, held, ret>>

NextLive ==
    \E p \in Ops :
        \/ StartLive(p)
        \/ ResolveRecipient(p)
        \/ KeychainGet(p)
        \/ DecodeKey(p)
        \/ SaveRead(p)
        \/ SaveWrite(p)
        \/ GetCoins(p)
        \/ BuildTransferTx(p)
        \/ DryRun(p)
        \/ Confirm(p)
        \/ Sign(p)
        \/ Execute(p)
        \/ Finally(p)

SpecLive == Init /\ [][NextLive]_vars /\ Fairness

\* ---------------------------------------------- the functions on their own

MaxTxLen == 3

\* Unsigned transactions as raw bytes, of every length up to MaxTxLen.
TxBytes == UNION {[1..n -> {0, 255}] : n \in 0..MaxTxLen}

SignInputs == [tx_bytes : TxBytes, seed : {S1, S2}, scheme : {0, 1}]

MaxCents == 205

\* Amounts as typed on the command line, in hundredths.
AmountTexts == {Decimal(n, 2) : n \in 0..MaxCents}

\* Secret strings a keychain entry can hold.
SecretStrings ==
    {Secret(<<sch>> \o seed \o extra, good) :
        sch \in {0, 1}, seed \in {S1, S2}, extra \in {<<>>, <<9>>}, good \in BOOLEAN}
    \cup {Secret(payload, TRUE) : payload \in {<<>>, <<0>>, <<0, 1, 1, 1>>}}
    \cup {[Secret(<<0>> \o S1, TRUE) EXCEPT !.hrp = "bc"]}
    \cup {HexSecret(b) : b \in {S1, S2, S1 \o S2, <<1, 1>>}}
    \cup {[t |-> "str", form |-> "text"]}

CalcInputs ==
    {[fn |-> "address", input |-> str, out |-> None] : str \in SecretStrings}
    \cup {[fn |-> "amount", input |-> text, out |-> None] : text \in AmountTexts}
    \cup {[fn |-> "sign", input |-> i, out |-> None] : i \in SignInputs}

InitPure ==
    /\ keychain = KeychainInit
    /\ addr_file = NoFile
    /\ chain = ChainInit
    /\ pc = [p \in Ops |-> "idle"]
    /\ args = [p \in Ops |-> None]
    /\ fr = [p \in Ops |-> Frame0]
    /\ calls = [p \in Ops |-> <<>>]
    /\ steps = [p \in Ops |-> <<>>]
    /\ printed = [p \in Ops |-> <<>>]
    /\ held = [p \in Ops |-> {}]
    /\ ret = [p \in Ops |-> None]
    /\ before = [p \in Ops |-> None]
    /\ calc \in CalcInputs
    /\ panel = [q \in PanelProcs |-> PanelIdle]

Pending(fn) == calc.fn = fn /\ calc.out = None

\* The same stored secret given to the transfer pipeline's decoder and to
\* the panel's.
DeriveAddress ==
    /\ Pending("address")
    /\ calc' = [calc EXCEPT !.out =
                  [t |-> "addresses",
                   transfer |-> get_address_from_key(calc.input),
                   panel |-> derive_sui_address(calc.input)]]
    /\ UNCHANGED <<panel, keychain, addr_file, chain, pc, args, fr, calls, steps, printed,
                   held, ret, before>>

\* float(args[2]) and the first statement of transfer()/dry_run_only()
ConvertAmount ==
    /\ Pending("amount")
    /\ calc' = [calc EXCEPT !.out = Num(AmountMist(ParseFloat(calc.input)))]
    /\ UNCHANGED <<panel, keychain, addr_file, chain, pc, args, fr, calls, steps, printed,
                   held, ret, before>>

\* sign_and_execute's computation of the signature envelope
SignBytes ==
    /\ Pending("sign")
    /\ calc' = [calc EXCEPT !.out =
                  SigBytes(calc.input.tx_bytes, calc.input.seed, calc.input.scheme)]
    /\ UNCHANGED <<panel, keychain, addr_file, chain, pc, args, fr, calls, steps, printed,
                   held, ret, before>>

NextPure ==
    \/ DeriveAddress
    \/ SignBytes
    \/ ConvertAmount

SpecPure == InitPure /\ [][NextPure]_vars

\* ------------------------------------------- two runs at the same time

\* Two runs of the script started side by side on the same wallet.
ConcurrentAmounts == {Decimal(1, 0), Decimal(2, 0)}

ConcurrentAmountArgument == [amt \in ConcurrentAmounts |-> ParseFloat(amt)]

ConcurrentArgs ==
    {[t |-> "args", mode |-> "transfer", wallet_alias |-> "sui1",
      recipient |-> Str("0xB0B"), amount_sui |-> ConcurrentAmountArgument[amt],
      auto_confirm |-> auto] : amt \in ConcurrentAmounts, auto \in BOOLEAN}

ConcurrentAmountMistOf ==
    [a \in ConcurrentArgs |-> AmountMist(a.amount_sui)]

\* Entry of transfer() in a run that does not wait for the other one.
StartConcurrent(p) ==
    /\ pc[p] = "idle"
    /\ \E a \in ConcurrentArgs :
         /\ args' = [args EXCEPT ![p] = a]
         /\ fr' = [fr EXCEPT ![p].recipient = a.recipient,
                             ![p].amount_mist = Num(ConcurrentAmountMistOf[a])]
         /\ Goto(p, Head(Pipeline(a)))
    /\ before' = [before EXCEPT ![p] = Persistent]
    /\ UNCHANGED <<panel, calc, keychain, addr_file, chain, calls, steps, printed, held, ret>>

InitConcurrent ==
    /\ Init
    /\ addr_file = NoFile

NextConcurrent ==
    \E p \in Ops :
        \/ StartConcurrent(p)
        \/ ResolveRecipient(p)
        \/ KeychainGet(p)
        \/ DecodeKey(p)
        \/ SaveRead(p)
        \/ SaveWrite(p)
        \/ GetCoins(p)
        \/ BuildTransferTx(p)
        \/ DryRun(p)
        \/ Confirm(p)
        \/ Sign(p)
        \/ Execute(p)
        \/ Finally(p)

SpecConcurrent == InitConcurrent /\ [][NextConcurrent]_vars

\* ------------------------------------------------------- wallet_panel.py

\* get_registry of wallet_panel.py on the stored registry
RegistryWallets(kc) ==
    IF kc[REGISTRY_KEY] = None \/ ~IsJson(kc[REGISTRY_KEY]) THEN <<>>
    ELSE kc[REGISTRY_KEY].v

RegistryEntries(kc, alias) ==
    {w \in {RegistryWallets(kc)[i] : i \in DOMAIN RegistryWallets(kc)} : w.alias = alias}

\* find_wallet: the position of the first record with the alias, 0 for None
find_wallet(wallets, alias) ==
    IF \E i \in DOMAIN wallets : wallets[i].alias = alias
    THEN CHOOSE i \in DOMAIN wallets :
            /\ wallets[i].alias = alias
            /\ \A j \in DOMAIN wallets : wallets[j].alias = alias => i <= j
    ELSE 0

CHAIN_TYPES == [c \in {"1", "2", "3", "4"} |->
                   CASE c = "1" -> "sui" [] c = "2" -> "solana"
                     [] c = "3" -> "evm" [] OTHER -> "other"]

\* CHAIN_TYPES.get(input().strip() or "4", CHAIN_TYPES["4"])["id"]
ChainId(chain_choice) ==
    IF chain_choice \in DOMAIN CHAIN_TYPES THEN CHAIN_TYPES[chain_choice]
    ELSE CHAIN_TYPES["4"]

\* What the operator types: the alias (after strip), the chain number, the
\* pasted secret, the answers to the y/n and "yes" prompts.
PanelAliases == {"sui1", "sui2"}
TypedAliases == PanelAliases \cup {"", REGISTRY_KEY}
ChainChoices == {"1", "4", ""}
PastedSecrets == {Str(""), K1, K2, KBadChecksum, HexSecret(<<1, 1>>)}
PanelAnswers == {<<"y">>, <<"Y">>, <<"n">>, <<"y", "e", "s">>}

\* len(secret.replace("0x", "")) of a hex secret
CleanLen(secret) == 2 * Len(secret.hexbytes)

\* cmd_add's length check of a Sui secret: the warning is shown
SuiWarn(secret) ==
    ~StartsWithSuiPrivKey(secret) /\ CleanLen(secret) \notin {64, 128}

\* The number of commands one run of the model issues per process.
MaxCommands == 2

PanelCanStart(q) == panel[q].pc = "idle" /\ panel[q].runs < MaxCommands

\* a command returns: its messages are on the terminal
PanelEnd(q, locals, msgs) ==
    panel' = [panel EXCEPT ![q] =
                 [locals EXCEPT !.pc = "idle", !.runs = panel[q].runs + 1,
                                !.out = locals.out \o msgs]]

PanelBegin(q, cmd, alias) ==
    [PanelIdle EXCEPT !.cmd = cmd, !.alias = alias, !.runs = panel[q].runs,
                      !.wallets = RegistryWallets(keychain),
                      !.existing = find_wallet(RegistryWallets(keychain), alias),
                      !.stored_before =
                          IF alias \in WalletAliases THEN keychain[alias] ELSE None]

OtherVars == <<addr_file, chain, pc, args, fr, calls, steps, printed, held,
               ret, before, calc>>

\* cmd_add up to derive_address: the prompts, get_registry, the checks.
AddBegin(q) ==
    /\ PanelCanStart(q)
    /\ \E alias \in TypedAliases, overwrite \in PanelAnswers,
          chain_choice \in ChainChoices, secret \in PastedSecrets,
          continue_yn \in PanelAnswers :
        LET l == PanelBegin(q, "add", alias)
            chain_id == ChainId(chain_choice)
            address == derive_address(chain_id, secret)
        IN IF alias = "" \/ alias = REGISTRY_KEY
           THEN PanelEnd(q, l, <<"invalid_alias">>)
           ELSE IF l.existing # 0 /\ Lower(overwrite) # <<"y">>
           THEN PanelEnd(q, l, <<"cancelled">>)
           ELSE IF secret = Str("")
           THEN PanelEnd(q, l, <<"empty_key">>)
           ELSE IF chain_id = "sui" /\ SuiWarn(secret) /\ Lower(continue_yn) # <<"y">>
           THEN PanelEnd(q, l, <<"sui_warn">>)
           ELSE panel' = [panel EXCEPT ![q] =
                    [l EXCEPT !.pc = "add_delete", !.chain_id = chain_id,
                              !.secret = secret, !.address = address,
                              !.out = (IF chain_id = "sui" /\ SuiWarn(secret)
                                       THEN <<"sui_warn">> ELSE <<>>)
                                      \o (IF address # Str("")
                                          THEN <<"derived_addr">> ELSE <<>>)]]
    /\ UNCHANGED <<keychain, OtherVars>>

\* What a run of the security tool can do: end with status 0, end with
\* another status, or not start at all (subprocess.run raises).
SecurityOutcomes == {"ok", "fail", "raise"}

\* security delete-generic-password -s SERVICE_ID -a alias; its result is
\* not looked at.
AddDelete(q) ==
    /\ panel[q].pc = "add_delete"
    /\ \E outcome \in SecurityOutcomes :
        CASE outcome = "ok" ->
               /\ keychain' = [keychain EXCEPT ![panel[q].alias] = None]
               /\ panel' = [panel EXCEPT ![q].pc = "add_store"]
          [] outcome = "fail" ->
               /\ panel' = [panel EXCEPT ![q].pc = "add_store"]
               /\ UNCHANGED keychain
          [] OTHER ->
               /\ PanelEnd(q, panel[q], <<"store_fail">>)
               /\ UNCHANGED keychain
    /\ UNCHANGED OtherVars

\* security add-generic-password ... -w secret -T "": refuses an account
\* that has an item; a non-zero status prints store_fail and returns.
AddStore(q) ==
    /\ panel[q].pc = "add_store"
    /\ \E outcome \in {"ok", "fail"} :
        IF outcome = "ok" /\ keychain[panel[q].alias] = None
        THEN /\ keychain' = [keychain EXCEPT ![panel[q].alias] = panel[q].secret]
             /\ panel' = [panel EXCEPT ![q].pc = "add_save"]
        ELSE /\ PanelEnd(q, panel[q], <<"store_fail">>)
             /\ UNCHANGED keychain
    /\ UNCHANGED OtherVars

\* the record of the alias updated in place, or a new record appended
AddUpdated(l) ==
    IF l.existing # 0
    THEN [l.wallets EXCEPT ![l.existing] =
             [@ EXCEPT !.chain = l.chain_id, !.address = l.address]]
    ELSE Append(l.wallets, Wallet(l.alias, l.chain_id, l.address))

\* cmd_add's registry update and save_registry; keyring.set_password may
\* raise, which the except clause reports as store_fail.
AddSave(q) ==
    /\ panel[q].pc = "add_save"
    /\ \E outcome \in {"ok", "raise"} :
        LET l == [panel[q] EXCEPT !.wallets = AddUpdated(panel[q])]
        IN IF outcome = "ok"
           THEN /\ keychain' = [keychain EXCEPT ![REGISTRY_KEY] = JsonDumps(l.wallets)]
                /\ PanelEnd(q, l, <<"store_ok">>)
           ELSE /\ PanelEnd(q, l, <<"store_fail">>)
                /\ UNCHANGED keychain
    /\ UNCHANGED OtherVars

\* cmd_remove up to the try block: get_registry, find_wallet, the prompt,
\* whose answer has to be yes as typed.
RemoveBegin(q) ==
    /\ PanelCanStart(q)
    /\ \E alias \in PanelAliases, confirm \in PanelAnswers :
        LET l == PanelBegin(q, "remove", alias)
        IN IF l.existing = 0
           THEN PanelEnd(q, l, <<"remove_not_found">>)
           ELSE IF confirm # <<"y", "e", "s">>
           THEN PanelEnd(q, l, <<"cancelled">>)
           ELSE panel' = [panel EXCEPT ![q] = [l EXCEPT !.pc = "remove_delete"]]
    /\ UNCHANGED <<keychain, OtherVars>>

\* keyring.delete_password: raises when there is no item or the keychain
\* refuses; the except clause reports remove_fail.
RemoveDelete(q) ==
    /\ panel[q].pc = "remove_delete"
    /\ \E outcome \in {"ok", "raise"} :
        IF outcome = "ok" /\ keychain[panel[q].alias] # None
        THEN /\ keychain' = [keychain EXCEPT ![panel[q].alias] = None]
             /\ panel' = [panel EXCEPT ![q].pc = "remove_save"]
        ELSE /\ PanelEnd(q, panel[q], <<"remove_fail">>)
             /\ UNCHANGED keychain
    /\ UNCHANGED OtherVars

\* list.remove(x): the list without its element at position i
RemoveAt(l, i) == SubSeq(l, 1, i - 1) \o SubSeq(l, i + 1, Len(l))

\* wallets.remove(existing); save_registry(wallets)
RemoveSave(q) ==
    /\ panel[q].pc = "remove_save"
    /\ \E outcome \in {"ok", "raise"} :
        LET l == [panel[q] EXCEPT
                     !.wallets = RemoveAt(panel[q].wallets, panel[q].existing)]
        IN IF outcome = "ok"
           THEN /\ keychain' = [keychain EXCEPT ![REGISTRY_KEY] = JsonDumps(l.wallets)]
                /\ PanelEnd(q, l, <<"remove_ok">>)
           ELSE /\ PanelEnd(q, l, <<"remove_fail">>)
                /\ UNCHANGED keychain
    /\ UNCHANGED OtherVars

\* cmd_reset_acl up to the try block: get_registry, find_wallet and
\* pk = keyring.get_password(SERVICE_ID, alias).
ResetBegin(q) ==
    /\ PanelCanStart(q)
    /\ \E alias \in PanelAliases :
        LET l == PanelBegin(q, "reset-acl", alias)
        IN IF l.existing = 0
           THEN PanelEnd(q, l, <<"remove_not_found">>)
           ELSE IF ~Truthy(keychain[alias])
           THEN PanelEnd(q, l, <<"acl_title", "acl_read_fail">>)
           ELSE panel' = [panel EXCEPT ![q] =
                    [l EXCEPT !.pc = "reset_delete", !.pk = keychain[alias],
                              !.out = <<"acl_title">>]]
    /\ UNCHANGED <<keychain, OtherVars>>

\* finally: pk = None; del pk
ResetFinally(l) == [l EXCEPT !.pk = None]

\* security delete-generic-password of cmd_reset_acl
ResetDelete(q) ==
    /\ panel[q].pc = "reset_delete"
    /\ \E outcome \in SecurityOutcomes :
        CASE outcome = "ok" ->
               /\ keychain' = [keychain EXCEPT ![panel[q].alias] = None]
               /\ panel' = [panel EXCEPT ![q].pc = "reset_store"]
          [] outcome = "fail" ->
               /\ panel' = [panel EXCEPT ![q].pc = "reset_store"]
               /\ UNCHANGED keychain
          [] OTHER ->
               /\ PanelEnd(q, ResetFinally(panel[q]), <<"acl_fail">>)
               /\ UNCHANGED keychain
    /\ UNCHANGED OtherVars

\* security add-generic-password ... -w pk -T "" of cmd_reset_acl
ResetStore(q) ==
    /\ panel[q].pc = "reset_store"
    /\ \E outcome \in {"ok", "fail"} :
        IF outcome = "ok" /\ keychain[panel[q].alias] = None
        THEN /\ keychain' = [keychain EXCEPT ![panel[q].alias] = panel[q].pk]
             /\ PanelEnd(q, ResetFinally(panel[q]), <<"acl_ok">>)
        ELSE /\ PanelEnd(q, ResetFinally(panel[q]), <<"acl_fail">>)
             /\ UNCHANGED keychain
    /\ UNCHANGED OtherVars

\* --------------------------------------------------- wallet_mcp_server.py

\* get_registry of the MCP server: json.loads of the stored text as it is
McpRegistry(kc) ==
    IF kc[REGISTRY_KEY] = None \/ ~IsJson(kc[REGISTRY_KEY]) THEN <<>>
    ELSE kc[REGISTRY_KEY].v

\* an element of the parsed registry that is a dict, not a str
IsDict(w) == "alias" \in DOMAIN w

\* keyring.get_password(SERVICE_ID, w) for w the name of an account; for a
\* dict the backend either finds no such account or raises on the type.
DictLookups == {"none", "raise"}

\* one line of list_wallets: what is shown for w, and the status
ListLine(kc, w) ==
    LET pk == IF IsDict(w) THEN None ELSE kc[w.v]
    IN [shown |-> w, available |-> Truthy(pk)]

\* the MCP tool list_wallets
list_wallets(kc, lookup) ==
    LET wallets == McpRegistry(kc)
    IN IF wallets = <<>> THEN [t |-> "empty"]
       ELSE IF lookup = "raise" /\ \E i \in DOMAIN wallets : IsDict(wallets[i])
       THEN Raise("AttributeError", "username")
       ELSE [t |-> "lines", v |-> [i \in DOMAIN wallets |-> ListLine(kc, wallets[i])]]

ListWallets(q) ==
    /\ PanelCanStart(q)
    /\ \E lookup \in DictLookups :
        PanelEnd(q, [PanelIdle EXCEPT !.cmd = "list_wallets",
                                      !.result = list_wallets(keychain, lookup)],
                 <<>>)
    /\ UNCHANGED <<keychain, OtherVars>>

\* One operator at one terminal, on a keychain without wallets.
EmptyKeychain == [a \in KeychainAccounts |-> None]

InitPanel ==
    /\ keychain = EmptyKeychain
    /\ addr_file = NoFile
    /\ chain = ChainInit
    /\ pc = [p \in Ops |-> "idle"]
    /\ args = [p \in Ops |-> None]
    /\ fr = [p \in Ops |-> Frame0]
    /\ calls = [p \in Ops |-> <<>>]
    /\ steps = [p \in Ops |-> <<>>]
    /\ printed = [p \in Ops |-> <<>>]
    /\ held = [p \in Ops |-> {}]
    /\ ret = [p \in Ops |-> None]
    /\ before = [p \in Ops |-> None]
    /\ calc = CalcIdle
    /\ panel = [q \in PanelProcs |-> PanelIdle]

Operator == "panel1"

NextPanel ==
    \/ AddBegin(Operator)
    \/ AddDelete(Operator)
    \/ AddStore(Operator)
    \/ AddSave(Operator)
    \/ RemoveBegin(Operator)
    \/ RemoveDelete(Operator)
    \/ RemoveSave(Operator)
    \/ ResetBegin(Operator)
    \/ ResetDelete(Operator)
    \/ ResetStore(Operator)
    \/ ListWallets(Operator)

SpecPanel == InitPanel /\ [][NextPanel]_vars

\* Two terminals, one cmd_add each, their steps interleaved.
AddOnce(q) == panel[q].runs = 0 /\ AddBegin(q)

NextPanelConcurrent ==
    \E q \in PanelProcs :
        \/ AddOnce(q)
        \/ AddDelete(q)
        \/ AddStore(q)
        \/ AddSave(q)

SpecPanelConcurrent == InitPanel /\ [][NextPanelConcurrent]_vars

\* ------------------------------------------------------------ observations

Has(seq, x) == \E i \in DOMAIN seq : seq[i] = x

\* x occurs in seq, and every y of seq comes after an x
Precedes(seq, x, y) ==
    \A j \in DOMAIN seq : seq[j] = y => \E i \in 1..(j - 1) : seq[i] = x

Methods(p) == [i \in DOMAIN calls[p] |-> calls[p][i].method]

Started(p) == pc[p] # "idle"

Running(p, m) == Started(p) /\ args[p].mode = m

Signed(p) == Has(steps[p], "sign") \/ fr[p].sig # None

ExecuteIssued(p) == Has(Methods(p), "sui_executeTransactionBlock")

\* a dry-run call of exactly these bytes was issued
DryRunIssuedFor(p, tx) ==
    \E i \in DOMAIN calls[p] :
        /\ calls[p][i].method = "sui_dryRunTransactionBlock"
        /\ calls[p][i].params = <<tx>>

SimulatedSuccess(p) ==
    /\ fr[p].dry_result # None
    /\ "effects" \in DOMAIN fr[p].dry_result
    /\ fr[p].dry_result.effects.status = "success"

SimulatedOtherwise(p) == fr[p].dry_result # None /\ ~SimulatedSuccess(p)

TypedYes == { <<"y">>, <<"Y", " ">>, <<"y", "e", "s">>, <<" ", "Y", "E", "S", " ">> }

Prompted(p) == Has(steps[p], "input")

Answered(p) == fr[p].typed # None

GateConfirmed(p) ==
    \/ args[p].auto_confirm
    \/ Answered(p) /\ fr[p].typed.v \in TypedYes

\* ------------------------------------------------------------------ claims

\* C1: in transfer() of src/sui_transfer.py a signature is produced or an
\* execute call issued only after a dry run that reported "success" and
\* after the gate was confirmed (auto_confirm, or the answer y / yes).
C1_SignOnlyAfterSuccessAndConfirm ==
    \A p \in Ops :
        Running(p, "transfer") /\ (Signed(p) \/ ExecuteIssued(p)) =>
            /\ SimulatedSuccess(p)
            /\ DryRunIssuedFor(p, fr[p].tx_bytes)
            /\ Precedes(steps[p], "dry_run", "sign")
            /\ Precedes(steps[p], "dry_run", "execute")
            /\ GateConfirmed(p)
            /\ (~args[p].auto_confirm => Precedes(steps[p], "input", "sign"))

C1_Witness ==
    \E p \in Ops :
        /\ Running(p, "transfer") /\ pc[p] = "done"
        /\ ExecuteIssued(p) /\ ~args[p].auto_confirm

\* C2: transfer() of src/MiaoWallet/sui_transfer.py signs and broadcasts
\* only transaction bytes whose dry run reported success before.
C2_LegacySignsOnlySimulated ==
    \A p \in Ops :
        Running(p, "legacy") /\ (Signed(p) \/ ExecuteIssued(p)) =>
            /\ DryRunIssuedFor(p, fr[p].tx_bytes)
            /\ SimulatedSuccess(p)

\* C3: whatever auto_confirm is, a dry run reporting anything but
\* "success" (a missing status included) makes transfer() return None
\* without reading a confirmation, signing or issuing an execute call.
C3_SimulationFailedIsTerminal ==
    \A p \in Ops :
        Running(p, "transfer") /\ SimulatedOtherwise(p) =>
            /\ pc[p] \in {"finally", "done"}
            /\ ret[p] = None
            /\ Has(printed[p], "sim_cancelled")
            /\ ~Prompted(p)
            /\ ~Signed(p)
            /\ ~ExecuteIssued(p)

C3_Witness ==
    \E p \in Ops :
        /\ Running(p, "transfer") /\ pc[p] = "done"
        /\ args[p].auto_confirm
        /\ fr[p].dry_result # None
        /\ "effects" \notin DOMAIN fr[p].dry_result

\* C4: with auto_confirm, transfer() still builds and dry-runs before it
\* signs, and a run that reaches execute issues the same sequence of
\* remote calls as an interactively confirmed run with the same recipient.
C4_AutoConfirmSkipsOnlyPrompt ==
    /\ \A p \in Ops :
          Running(p, "transfer") /\ args[p].auto_confirm /\ Signed(p) =>
              /\ Precedes(steps[p], "build_transfer_tx", "sign")
              /\ Precedes(steps[p], "dry_run", "sign")
              /\ ~Prompted(p)
    /\ \A p, q \in Ops :
          /\ Running(p, "transfer") /\ Running(q, "transfer")
          /\ args[p].auto_confirm /\ ~args[q].auto_confirm
          /\ args[p].recipient = args[q].recipient
          /\ ExecuteIssued(p) /\ ExecuteIssued(q)
          => Methods(p) = Methods(q)

C4_Witness ==
    \E p, q \in Ops :
        /\ Running(p, "transfer") /\ Running(q, "transfer")
        /\ args[p].auto_confirm /\ ~args[q].auto_confirm
        /\ args[p].recipient = args[q].recipient
        /\ ExecuteIssued(p) /\ ExecuteIssued(q)
        /\ pc[p] = "done" /\ pc[q] = "done"

\* C5: without auto_confirm the gate is confirmed only by an answer that
\* is "y" or "yes" once trimmed and lower-cased; any other answer, the
\* empty one included, cancels: transfer() returns None and neither signs
\* nor issues an execute call.
C5_OnlyYesConfirms ==
    \A p \in Ops :
        Running(p, "transfer") /\ ~args[p].auto_confirm /\ Answered(p) =>
            IF fr[p].typed.v \in TypedYes
            THEN /\ pc[p] \in {"sign", "execute", "finally", "done"}
                 /\ ~Has(printed[p], "user_cancelled")
            ELSE /\ pc[p] \in {"finally", "done"}
                 /\ Has(printed[p], "user_cancelled")
                 /\ ret[p] = None
                 /\ ~Signed(p)
                 /\ ~ExecuteIssued(p)

C5_Witness ==
    \E p, q \in Ops :
        /\ Running(p, "transfer") /\ Answered(p) /\ fr[p].typed.v = <<>>
        /\ pc[p] = "done"
        /\ Running(q, "transfer") /\ Answered(q)
        /\ fr[q].typed.v = <<" ", "Y", "E", "S", " ">>
        /\ pc[q] = "done"

SecretObtained(p) ==
    /\ Has(steps[p], "keyring.get_password")
    /\ ~Has(printed[p], "no_privkey")

CleanupRan(p) ==
    /\ steps[p] # <<>>
    /\ steps[p][Len(steps[p])] = "cleanup"
    /\ Has(printed[p], "cleared")

\* C6: every transfer() (either script) that obtained a secret from the
\* store has run the cleanup step when it ends, whatever the exit path.
C6_CleanupOnEveryExit ==
    \A p \in Ops :
        /\ Started(p) /\ args[p].mode \in {"transfer", "legacy"}
        /\ SecretObtained(p) /\ pc[p] = "done"
        => CleanupRan(p)

C6_Witness ==
    \E p, q \in Ops :
        /\ Running(p, "transfer") /\ SecretObtained(p) /\ pc[p] = "done"
        /\ ret[p].t = "raise"
        /\ Running(q, "legacy") /\ SecretObtained(q) /\ pc[q] = "done"
        /\ ret[q] = None

\* C7: when transfer() has completed, no object holding the seed bytes is
\* still reachable: not the seed, not the secret string, not a key object.
C7_NothingHeldAfterTransfer ==
    \A p \in Ops : Running(p, "transfer") /\ pc[p] = "done" => held[p] = {}

\* the operation no later one has followed yet
Latest(p) == Started(p) /\ \A q \in Ops : Index(q) > Index(p) => pc[q] = "idle"

UserCancelled(p) ==
    /\ Running(p, "transfer") /\ pc[p] = "done"
    /\ Has(printed[p], "user_cancelled")

\* C8 as stated: a cancelled transfer leaves the address cache file, the
\* secret store and the chain as they were when it started.
C8_CancelledChangesNothing ==
    \A p \in Ops : Latest(p) /\ UserCancelled(p) => Persistent = before[p]

\* C8 amended: a cancelled transfer leaves the secret store and the chain
\* as they were and issues no execute call; in the address cache file it
\* changes the entry of its own alias, to the sender address, and nothing
\* else.
C8_CancelledWritesOnlyOwnCacheEntry ==
    \A p \in Ops :
        Latest(p) /\ UserCancelled(p) =>
            /\ keychain = before[p].keychain
            /\ chain = before[p].chain
            /\ ~ExecuteIssued(p)
            /\ \A a \in WalletAliases :
                  addr_file[a] = IF a = args[p].wallet_alias
                                 THEN fr[p].sender
                                 ELSE before[p].addr_file[a]

C8_Witness ==
    \E p \in Ops :
        /\ Latest(p) /\ UserCancelled(p)
        /\ args[p].wallet_alias = "sui1"
        /\ before[p].addr_file["sui1"] = None
        /\ before[p].addr_file["sui2"] = A2
        /\ addr_file["sui1"] = A1

ZeroCoins(p) == fr[p].coins # None /\ Len(fr[p].coins.v) = 0

\* C9: when getCoins returns no coin, transfer() and dry_run_only() stop
\* with the no-funds outcome before the builder is called: no
\* buildTransfer, dryRun or execute call is issued.
C9_NoCoinsStopsBeforeBuilder ==
    \A p \in Ops :
        /\ Started(p) /\ args[p].mode \in {"transfer", "dry_run_only"}
        /\ ZeroCoins(p)
        => /\ pc[p] \in {"finally", "done"}
           /\ Has(printed[p], "no_coin")
           /\ ret[p] = Bail(args[p])
           /\ ~Has(Methods(p), "unsafe_paySui")
           /\ ~Has(Methods(p), "sui_dryRunTransactionBlock")
           /\ ~ExecuteIssued(p)
           /\ ~Signed(p)

C9_Witness ==
    \E p, q \in Ops :
        /\ Running(p, "transfer") /\ ZeroCoins(p) /\ pc[p] = "done"
        /\ Running(q, "dry_run_only") /\ ZeroCoins(q) /\ pc[q] = "done"

LastMethod(p) == IF calls[p] = <<>> THEN "none" ELSE Methods(p)[Len(calls[p])]

\* the error kind an ended transfer() ran into, "none" if it ran into none
ErrorKind(p) ==
    CASE Has(printed[p], "resolve_failed") -> "NameResolution"
      [] Has(printed[p], "no_privkey") -> "KeyUnavailable"
      [] Has(printed[p], "no_coin") -> "NoFundsError"
      [] Has(printed[p], "sim_cancelled") -> "SimulationFailed"
      [] Has(printed[p], "user_cancelled") -> "UserCancelled"
      [] ret[p].t = "raise" /\ LastMethod(p) = "unsafe_paySui"
            /\ Has(steps[p], "build_transfer_tx") -> "BuilderError"
      [] ret[p].t = "raise" /\ LastMethod(p) = "sui_dryRunTransactionBlock"
            -> "SimulationTransportError"
      [] ret[p].t = "raise" /\ LastMethod(p) = "sui_executeTransactionBlock"
            -> "BroadcastTransportError"
      [] OTHER -> "none"

\* C10: two transfers that ended in different error kinds hand different
\* outcomes back to their callers.
C10_ErrorKindsDistinguishable ==
    \A p, q \in Ops :
        /\ Running(p, "transfer") /\ Running(q, "transfer")
        /\ pc[p] = "done" /\ pc[q] = "done"
        /\ ErrorKind(p) # "none" /\ ErrorKind(q) # "none"
        /\ ErrorKind(p) # ErrorKind(q)
        => ret[p] # ret[q]

\* the chain's final status of a broadcast whose response arrived
ChainReported(p) == fr[p].result # None

\* C11: a transfer whose execute call was answered with a final status
\* other than success ends in a raised error, not in the kind of outcome a
\* successful transfer hands back.
C11_FailedExecutionSurfacesError ==
    \A p \in Ops :
        /\ Running(p, "transfer") /\ pc[p] = "done"
        /\ ChainReported(p) /\ TxStatus(fr[p].result) # "success"
        => ret[p].t = "raise"

RemoteMethods == {"suix_getCoins", "unsafe_paySui", "sui_dryRunTransactionBlock",
                  "sui_executeTransactionBlock"}

IssuedTimes(p, m) == Cardinality({i \in DOMAIN calls[p] : calls[p][i].method = m})

RpcFailed(p) == ret[p].t = "raise" /\ ret[p].exc \in {"Exception", "RequestException"}

\* C12: a transfer issues getCoins, buildTransfer, dryRun and execute at
\* most once each, and a call that failed (transport error or error
\* response) is the operation's last call: only the cleanup follows.
C12_NoRemoteCallRetried ==
    \A p \in Ops :
        Running(p, "transfer") =>
            /\ \A m \in RemoteMethods : IssuedTimes(p, m) <= 1
            /\ RpcFailed(p) => pc[p] \in {"finally", "done"}

\* a broadcast failed after the three calls before it succeeded
C12_Witness ==
    \E p \in Ops :
        /\ Running(p, "transfer") /\ pc[p] = "done" /\ RpcFailed(p)
        /\ \A m \in RemoteMethods : IssuedTimes(p, m) = 1
        /\ LastMethod(p) = "sui_executeTransactionBlock"

\* C13: dry_run_only never reads the secret store, never decodes or holds
\* a secret, never signs or broadcasts; the sender of its dry run is the
\* address get_wallet_address found without the secret.
C13_PreviewNeverTouchesKey ==
    \A p \in Ops :
        Running(p, "dry_run_only") =>
            /\ ~Has(steps[p], "keyring.get_password")
            /\ ~Has(steps[p], "get_address_from_key")
            /\ fr[p].privkey = None /\ fr[p].seed = None /\ held[p] = {}
            /\ ~Signed(p) /\ ~ExecuteIssued(p)
            /\ \A i \in DOMAIN calls[p] :
                  calls[p][i].method = "sui_dryRunTransactionBlock" =>
                    /\ Has(steps[p], "get_wallet_address")
                    /\ calls[p][i].params[1].sender
                         = get_wallet_address(args[p].wallet_alias, before[p].addr_file)

\* a preview that reached the dry run with a cached sender address
C13_Witness ==
    \E p \in Ops :
        /\ Running(p, "dry_run_only") /\ pc[p] = "done"
        /\ Has(Methods(p), "sui_dryRunTransactionBlock")
        /\ fr[p].dry_result # None

\* the parameters of the operation's calls of method m
ParamsOf(p, m) == {calls[p][i].params : i \in {j \in DOMAIN calls[p] : calls[p][j].method = m}}

\* C14: once transfer() has signed, the bytes it holds are the bytes the one
\* buildTransfer call returned, they are the bytes that were dry-run, the
\* signature is over the digest of exactly these bytes, and the execute
\* call carries exactly these bytes.
C14_OneTransactionThroughout ==
    \A p \in Ops :
        Running(p, "transfer") /\ (Signed(p) \/ ExecuteIssued(p)) =>
            /\ IssuedTimes(p, "unsafe_paySui") = 1
            /\ fr[p].tx_result # None
            /\ fr[p].tx_bytes = fr[p].tx_result.txBytes
            /\ ParamsOf(p, "sui_dryRunTransactionBlock") = {<<fr[p].tx_result.txBytes>>}
            /\ fr[p].sig.signature.over = Blake2b(<<INTENT_PREFIX, fr[p].tx_result.txBytes>>)
            /\ \A prm \in ParamsOf(p, "sui_executeTransactionBlock") :
                  prm = <<fr[p].tx_result.txBytes, fr[p].sig>>

\* a transfer that was built, dry-run, signed and broadcast
C14_Witness ==
    \E p \in Ops :
        /\ Running(p, "transfer") /\ pc[p] = "done"
        /\ ChainReported(p) /\ TxStatus(fr[p].result) = "success"
        /\ ParamsOf(p, "sui_executeTransactionBlock") # {}

Computed(fn) == calc.fn = fn /\ calc.out # None

\* C15: a secret string for which derive_sui_address yields an address
\* is accepted by get_address_from_key too, with that same address.
C15_SameAddressBothEncodings ==
    Computed("address") /\ calc.out.panel.t = "addr" =>
        /\ calc.out.transfer.t = "ok"
        /\ calc.out.transfer.address = calc.out.panel

\* a secret string that is no encoded key: not of a known encoding, its
\* checksum wrong, or fewer than 33 bytes after the 5-to-8-bit conversion
Malformed(str) ==
    \/ str.form \notin {"bech32", "hex"}
    \/ str.form = "bech32" /\ (~str.checksum_ok \/ Len(str.data8bit) < SeedLen + 1)

DecodeErrors == {"TypeError", "IndexError", "ValueError"}

\* C16: a transfer that read a malformed secret ends with the decoder's
\* exception: it has no seed and no sender, has issued none of getCoins,
\* buildTransfer, dryRun and execute, and has not written the address file.
C16_MalformedSecretStopsTransfer ==
    \A p \in Ops :
        /\ Running(p, "transfer") /\ Has(steps[p], "get_address_from_key")
        /\ Malformed(keychain[args[p].wallet_alias])
        => /\ ret[p].t = "raise" /\ ret[p].exc \in DecodeErrors
           /\ fr[p].seed = None /\ fr[p].sender = None
           /\ \A m \in RemoteMethods : IssuedTimes(p, m) = 0
           /\ ~Has(steps[p], "save_wallet_address")
           /\ Latest(p) => addr_file = before[p].addr_file

\* transfers of the wallet with the short payload and of the wallet with
\* the wrong checksum have both ended
C16_Witness ==
    \E p, q \in Ops :
        /\ Running(p, "transfer") /\ pc[p] = "done" /\ args[p].wallet_alias = "short"
        /\ Has(steps[p], "get_address_from_key") /\ ret[p].exc = "ValueError"
        /\ Running(q, "transfer") /\ pc[q] = "done" /\ args[q].wallet_alias = "broken"
        /\ Has(steps[q], "get_address_from_key") /\ ret[q].exc = "TypeError"

\* C20: the amount in smallest units is the typed decimal amount times
\* 10^9, exactly.
C20_AmountConvertedExactly ==
    Computed("amount") =>
        calc.out.v = calc.input.digits * Pow10(9 - calc.input.places)

\* C19: the envelope is the scheme byte, the 64 signature bytes and the 32
\* public key bytes, 97 bytes for a transaction of any length; what is
\* signed is the 32-byte digest of (0, 0, 0) followed by the transaction.
C19_EnvelopeLayout ==
    Computed("sign") =>
        LET i == calc.input
            o == calc.out
            digest == Blake2bDigest(<<0, 0, 0>> \o i.tx_bytes, 32)
        IN /\ Len(o.sig_bytes) = 97
           /\ o.sig_bytes[1] = i.scheme
           /\ SubSeq(o.sig_bytes, 2, 65) = Ed25519Signature(i.seed, digest)
           /\ SubSeq(o.sig_bytes, 66, 97) = VerifyKeyBytes(i.seed)
           /\ o.digest = digest /\ Len(o.digest) = 32
           /\ Len(o.intent_msg) = 3 + Len(i.tx_bytes)

\* an envelope for a transaction of the greatest length
C19_Witness ==
    /\ Computed("sign")
    /\ Len(calc.input.tx_bytes) = MaxTxLen
    /\ calc.input.scheme = 1

\* the local names of transfer() whose values a printed line shows
Interpolated(line) ==
    CASE line \in {"resolving", "resolve_failed", "resolved"} -> {"transfer.recipient"}
      [] line = "request" ->
           {"transfer.wallet_alias", "transfer.original_recipient",
            "transfer.recipient", "transfer.amount_sui", "transfer.amount_mist"}
      [] line = "sender" -> {"transfer.sender"}
      [] line = "balance" -> {"transfer.balance"}
      [] line \in {"sim_ok", "sim_failed"} ->
           {"transfer.dry_result", "transfer.sender", "transfer.recipient",
            "transfer.amount_sui"}
      [] line \in {"final_ok", "final_failed"} ->
           {"transfer.status", "transfer.digest", "transfer.gas_total",
            "transfer.result"}
      [] OTHER -> {}

\* the encoded secrets of the store and every byte string cut from one
SecretMaterial(v) == v \in {keychain[a] : a \in WalletAliases} \/ v.t = "bytes"

\* C18: no printed line shows a name bound to the secret, the address
\* file holds addresses only, and what transfer() hands its caller when it
\* has ended (a result, None or a raised exception) neither is secret
\* material nor keeps an object alive that holds it.
C18_NoSecretOutlivesTransfer ==
    \A p \in Ops :
        Running(p, "transfer") =>
            /\ \A i \in DOMAIN printed[p] :
                  Interpolated(printed[p][i]) \cap (TransferLocals \cup SignAndExecuteLocals) = {}
            /\ \A a \in WalletAliases :
                  addr_file[a] # None => ~SecretMaterial(addr_file[a])
            /\ pc[p] = "done" =>
                  /\ ret[p] # None => ~SecretMaterial(ret[p])
                  /\ ret[p].t = "raise" => held[p] = {}

\* both operations have broadcast a transaction that spends the same coin
\* object at the same version, and both have ended
Raced(p, q) ==
    /\ p # q
    /\ Running(p, "transfer") /\ Running(q, "transfer")
    /\ ExecuteIssued(p) /\ ExecuteIssued(q)
    /\ fr[p].tx_bytes.coin = fr[q].tx_bytes.coin
    /\ fr[p].tx_bytes.version = fr[q].tx_bytes.version
    /\ pc[p] = "done" /\ pc[q] = "done"

ReportsSuccess(p) == ret[p].t = "dict" /\ TxStatus(ret[p]) = "success"

SucceededOnChain(tx) == [tx |-> tx, status |-> "success"] \in chain.executed

\* C17: of two transfers that raced for the same coin reference at most
\* one succeeded on chain, at most one reports success, and each one that
\* does not report success ends in a raised error.
C17_RaceHasOneWinner ==
    \A p, q \in Ops :
        Raced(p, q) =>
            /\ ~(SucceededOnChain(fr[p].tx_bytes) /\ SucceededOnChain(fr[q].tx_bytes)
                  /\ fr[p].tx_bytes # fr[q].tx_bytes)
            /\ ~(ReportsSuccess(p) /\ ReportsSuccess(q))
            /\ \A r \in {p, q} : ~ReportsSuccess(r) => ret[r].t = "raise"

\* the calls of lines 209-256 in the order the source has them; "input" is
\* the prompt of the confirmation gate
PipelineSteps ==
    <<"keyring.get_password", "get_address_from_key", "get_coins",
      "build_transfer_tx", "dry_run", "input", "sign", "execute">>

IsPipelineStep(step) == Has(PipelineSteps, step)

IsNotPrompt(step) == step # "input"

\* with auto_confirm the gate does not prompt
ExpectedSteps(a) ==
    IF a.auto_confirm THEN SelectSeq(PipelineSteps, IsNotPrompt) ELSE PipelineSteps

IsPrefix(seq, of) == Len(seq) <= Len(of) /\ SubSeq(of, 1, Len(seq)) = seq

Occurrences(seq, x) == Cardinality({i \in DOMAIN seq : seq[i] = x})

\* how often the operation came through the gate, prompting or not
GatePassages(p) ==
    Occurrences(steps[p], "input") + Occurrences(printed[p], "auto_confirm")

\* C21: the steps a transfer has taken are an initial part of the fixed
\* order get secret, decode, getCoins, buildTransfer, dryRun, gate, sign,
\* execute; each was taken after the one before it had yielded its result;
\* the gate was passed at most once, and exactly once before a signature.
C21_StepsInFixedOrder ==
    \A p \in Ops :
        Running(p, "transfer") =>
            /\ IsPrefix(SelectSeq(steps[p], IsPipelineStep), ExpectedSteps(args[p]))
            /\ GatePassages(p) <= 1
            /\ Has(steps[p], "sign") => GatePassages(p) = 1
            /\ Has(steps[p], "get_address_from_key") => SecretObtained(p)
            /\ Has(steps[p], "get_coins") => fr[p].sender # None
            /\ Has(steps[p], "build_transfer_tx") => fr[p].coin # None
            /\ Has(steps[p], "dry_run") => fr[p].tx_bytes # None
            /\ GatePassages(p) = 1 => SimulatedSuccess(p)
            /\ Has(steps[p], "sign") => GateConfirmed(p)
            /\ Has(steps[p], "execute") => fr[p].sig # None

\* a prompted transfer that took all eight steps
C21_Witness ==
    \E p \in Ops :
        /\ Running(p, "transfer") /\ pc[p] = "done"
        /\ SelectSeq(steps[p], IsPipelineStep) = PipelineSteps

\* sign_and_execute has been called
SignInvoked(p) == Running(p, "transfer") /\ Has(steps[p], "sign")

\* the operation has ended with the execution result or a raised error,
\* and its last step was the cleanup
EndedAfterSigning(p) ==
    /\ pc[p] = "done"
    /\ ret[p].t \in {"dict", "raise"}
    /\ CleanupRan(p)

\* C22: from the call of sign_and_execute on, the operation is never
\* cancelled, and it eventually ends with the execution result or an error
\* after running the cleanup.
C22_SignedRunsToCompletion ==
    \A p \in Ops :
        /\ [](SignInvoked(p) => ~Has(printed[p], "user_cancelled")
                                 /\ ~Has(printed[p], "sim_cancelled"))
        /\ SignInvoked(p) ~> EndedAfterSigning(p)

\* a signed transfer that ended with the node's response
C22_Witness ==
    \E p \in Ops :
        /\ SignInvoked(p) /\ EndedAfterSigning(p) /\ ret[p].t = "dict"

\* C25: for an alias the registry has an entry for, the preview gets that
\* entry's address as sender and does not give up for want of an address.
C25_RegistryAddressFirst ==
    \A p \in Ops :
        /\ Running(p, "dry_run_only") /\ Has(steps[p], "get_wallet_address")
        /\ RegistryEntries(keychain, args[p].wallet_alias) # {}
        => /\ ~Has(printed[p], "address_not_found")
           /\ \E w \in RegistryEntries(keychain, args[p].wallet_alias) :
                 fr[p].sender = w.address

\* an Address: "0x" and the hex digest derived from a key
IsAddress(a) == a.t = "addr"

\* the last command of the operator was cmd_add and stored its record
AddStored(q) ==
    /\ panel[q].pc = "idle" /\ panel[q].cmd = "add"
    /\ Has(panel[q].out, "store_ok")

\* C23: every record of a Sui wallet that cmd_add has stored in the
\* registry carries an Address, never the text of a failed derivation.
C23_StoredSuiAddressIsAddress ==
    \A i \in DOMAIN RegistryWallets(keychain) :
        RegistryWallets(keychain)[i].chain = "sui"
            => IsAddress(RegistryWallets(keychain)[i].address)

\* list_wallets has returned (or raised) and no command has run since
Listed(q) == panel[q].pc = "idle" /\ panel[q].cmd = "list_wallets"

\* C24: on a registry that cmd_add has written, list_wallets returns one
\* line per record, showing the record's alias, and marks it available
\* exactly when the keychain holds a secret under that alias.
C24_ListWalletsMatchesKeychain ==
    \A q \in PanelProcs :
        Listed(q) /\ RegistryWallets(keychain) # <<>>
        => /\ panel[q].result.t = "lines"
           /\ \A i \in DOMAIN RegistryWallets(keychain) :
                LET w == RegistryWallets(keychain)[i]
                    line == panel[q].result.v[i]
                IN /\ line.shown = Str(w.alias)
                   /\ line.available = Truthy(keychain[w.alias])

\* no command of the panel is under way
PanelQuiet == \A q \in PanelProcs : panel[q].pc = "idle"

\* C26: between commands, the aliases listed in the registry are exactly
\* the aliases under which the keychain holds a wallet secret.
C26_RegistryMatchesKeychain ==
    PanelQuiet =>
        \A a \in WalletAliases :
            RegistryEntries(keychain, a) # {} <=> keychain[a] # None

\* cmd_reset_acl has returned and no command has run since
ResetDone(q) == panel[q].pc = "idle" /\ panel[q].cmd = "reset-acl"

\* C27: when cmd_reset_acl has returned, with or without success, the
\* keychain holds under the alias the secret it held when the command began.
C27_ResetKeepsSecret ==
    \A q \in PanelProcs :
        ResetDone(q) => keychain[panel[q].alias] = panel[q].stored_before

\* C28: when two cmd_add runs for different aliases have both stored their
\* wallet, the registry lists both aliases.
C28_BothAddsRecorded ==
    \A q1, q2 \in PanelProcs :
        /\ q1 # q2 /\ AddStored(q1) /\ AddStored(q2)
        /\ panel[q1].alias # panel[q2].alias
        => /\ RegistryEntries(keychain, panel[q1].alias) # {}
           /\ RegistryEntries(keychain, panel[q2].alias) # {}

====
